---- MODULE Spec2Model ----
(***************************************************************************)
(* Model of src/convert.py: the Mermaid gantt -> draw.io converter.        *)
(*                                                                         *)
(* Text is modelled at lexeme level: a Python str is a sequence of tokens, *)
(* a token being one of the lexemes the code distinguishes (whitespace,    *)
(* ":", ",", "%%", the keywords, unit letters, integer literals, date      *)
(* shaped literals, plain words).  A datetime is an integer number of time *)
(* units, UnitsPerDay units to the day, so that datetime.now() can fall    *)
(* inside a day and timedelta.days is a floor division.                    *)
(***************************************************************************)
EXTENDS Integers, Sequences, FiniteSets, TLC

VARIABLES
    pc,              \* position in the __main__ sequence / inside the callee
    err,             \* message of the exception that ended the run, "" if none
    infile_exists,   \* Path(args.infile).exists()
    disk_text,       \* content of the input file
    outfile,         \* content of the output file, NoFile while not written
    text,            \* the text read by __main__ (argument of parse_mermaid)
    lineno,          \* number of lines of text already scanned
    in_gantt,        \* parse_mermaid: in_gantt
    current_section, \* parse_mermaid: current_section
    raw_tasks,       \* parse_mermaid: raw_tasks
    unresolved,      \* parse_mermaid: unresolved
    id_to_task,      \* parse_mermaid: id_to_task
    tasks,           \* parse_mermaid: tasks (then the argument of build_drawio_xml)
    passes,          \* number of iterations of the pass loop begun so far
    now,             \* the instant datetime.now() returns
    day_width,       \* build_drawio_xml: day_width
    margin,          \* build_drawio_xml: margin
    cells,           \* build_drawio_xml: the mxCell children of root, in order
    d,               \* build_drawio_xml: tick loop variable
    last_label_x,    \* build_drawio_xml: last_label_x
    xml              \* the value build_drawio_xml returned, NoFile before

vars == <<pc, err, infile_exists, disk_text, outfile, text, lineno, in_gantt,
          current_section, raw_tasks, unresolved, id_to_task, tasks, passes,
          now, day_width, margin, cells, d, last_label_x, xml>>

-----------------------------------------------------------------------------
(* Configuration constants of convert.py *)
DAY_WIDTH == 20
TASK_HEIGHT == 20
MARGIN == 40
ROW_GAP == 0
TICK_INTERVAL == 7
LABEL_MIN_GAP == 48
SECTION_COL_WIDTH == 120
max_passes == 10
MinBarWidth == 4
LastLabelInit == -1000000
MinLabelWidth == 40

(* Bounds of the model *)
UnitsPerDay == 2     \* time units per day
MaxLines == 4        \* lines of a free-form text
MaxRecs == 3         \* task lines of a dependency text
MaxChain == 11       \* tasks of an `after` chain text
MaxTicks == 1        \* times the clock may advance during a run
MaxTasks == 3        \* tasks of a task list handed directly to build_drawio_xml

-----------------------------------------------------------------------------
(* Optional values: None is <<>>, a present value v is <<v>>. *)
None == <<>>
Some(v) == <<v>>
NoFile == <<"<absent>">>

(* ---- str methods, on token sequences ---- *)
IsSpace(t) == t = " "

RECURSIVE lstrip(_)
lstrip(s) == IF s # <<>> /\ IsSpace(Head(s)) THEN lstrip(Tail(s)) ELSE s

RECURSIVE rstrip(_)
rstrip(s) ==
    IF s # <<>> /\ IsSpace(s[Len(s)]) THEN rstrip(SubSeq(s, 1, Len(s) - 1)) ELSE s

strip(s) == lstrip(rstrip(s))

LowerTok(t) ==
    CASE t = "Gantt" -> "gantt"
      [] t = "Section" -> "section"
      [] t = "After" -> "after"
      [] t = "D" -> "d"
      [] OTHER -> t

lower(s) == [k \in 1..Len(s) |-> LowerTok(s[k])]

startswith(s, kw) == s # <<>> /\ s[1] = kw

endswith(s, ch) == s # <<>> /\ s[Len(s)] = ch

(* str.split(): the maximal runs of non-whitespace tokens *)
RECURSIVE split(_)
split(s) ==
    LET t == lstrip(s) IN
    IF t = <<>> THEN <<>>
    ELSE LET n == CHOOSE k \in 1..Len(t) :
                     /\ \A j \in 1..k : ~IsSpace(t[j])
                     /\ (k = Len(t) \/ IsSpace(t[k + 1]))
         IN <<SubSeq(t, 1, n)>> \o split(SubSeq(t, n + 1, Len(t)))

(* s.strip(","): drop leading and trailing commas *)
RECURSIVE stripComma(_)
stripComma(s) ==
    IF s # <<>> /\ Head(s) = "," THEN stripComma(Tail(s))
    ELSE IF s # <<>> /\ s[Len(s)] = "," THEN stripComma(SubSeq(s, 1, Len(s) - 1))
    ELSE s

(* position of the first token equal to t at or after position from, 0 if none *)
FirstAt(s, t, from) ==
    IF \E k \in from..Len(s) : s[k] = t
    THEN CHOOSE k \in from..Len(s) : s[k] = t /\ \A j \in from..(k - 1) : s[j] # t
    ELSE 0

(* ---- TASK_RE.match(line) ---- *)
(* ^\s*(name [^:\n]+)\s*:\s*(id [^,\s]+)\s*,\s*(start [^,]+)\s*,\s*(len [^\n]+) *)
NoMatch == [ok |-> FALSE, name |-> <<>>, id |-> <<>>, start |-> <<>>, len |-> <<>>]

TASK_RE_match(line) ==
    LET c1 == FirstAt(line, ":", 1) IN
    IF c1 < 2 THEN NoMatch                     \* name needs one character
    ELSE
    LET afterColon == lstrip(SubSeq(line, c1 + 1, Len(line)))
        idLen == IF afterColon = <<>> THEN 0
                 ELSE IF \E k \in 1..Len(afterColon) :
                            IsSpace(afterColon[k]) \/ afterColon[k] = ","
                      THEN (CHOOSE k \in 1..Len(afterColon) :
                              /\ IsSpace(afterColon[k]) \/ afterColon[k] = ","
                              /\ \A j \in 1..(k - 1) :
                                   ~IsSpace(afterColon[j]) /\ afterColon[j] # ",") - 1
                      ELSE Len(afterColon)
        afterId == lstrip(SubSeq(afterColon, idLen + 1, Len(afterColon)))
    IN
    IF idLen = 0 \/ ~startswith(afterId, ",") THEN NoMatch
    ELSE
    LET rest == Tail(afterId)                  \* after the first field comma
        c3 == FirstAt(rest, ",", 1)
    IN
    IF c3 < 2 \/ c3 = Len(rest) THEN NoMatch   \* start and len need one character
    ELSE [ok |-> TRUE,
          name |-> SubSeq(line, 1, c1 - 1),
          id |-> SubSeq(afterColon, 1, idLen),
          start |-> SubSeq(rest, 1, c3 - 1),
          len |-> SubSeq(rest, c3 + 1, Len(rest))]

-----------------------------------------------------------------------------
(* ---- dates and integers ---- *)
(* DATE_RE, (\d{4}[-/]\d{2}[-/]\d{2}): the date shaped tokens of the alphabet *)
DateShaped == {"2023-12-30", "2024-01-01", "2024-01-03", "2024-01-04",
               "2024/01/08", "2024-02-30"}

(* DATE_RE.search(s): the first date shaped token of s, as an optional value *)
DATE_RE_search(s) ==
    IF \E k \in 1..Len(s) : s[k] \in DateShaped
    THEN Some(s[CHOOSE k \in 1..Len(s) :
                   s[k] \in DateShaped /\ \A j \in 1..(k - 1) : s[j] \notin DateShaped])
    ELSE None

(* m.group(1).replace("/", "-") *)
replaceSlash(t) == IF t = "2024/01/08" THEN "2024-01-08" ELSE t

(* datetime.fromisoformat(t): the day number of a calendar date (2024-01-01 is *)
(* day 0), at midnight; ValueError (ok = FALSE) when t is no calendar date     *)
fromisoformat(t) ==
    CASE t = "2023-12-30" -> [ok |-> TRUE, v |-> (-2) * UnitsPerDay]
      [] t = "2024-01-01" -> [ok |-> TRUE, v |-> 0 * UnitsPerDay]
      [] t = "2024-01-03" -> [ok |-> TRUE, v |-> 2 * UnitsPerDay]
      [] t = "2024-01-04" -> [ok |-> TRUE, v |-> 3 * UnitsPerDay]
      [] t = "2024-01-08" -> [ok |-> TRUE, v |-> 7 * UnitsPerDay]
      [] OTHER -> [ok |-> FALSE, v |-> 0]

(* timedelta(days = n) and timedelta.days *)
timedelta(n) == n * UnitsPerDay
days(delta) == delta \div UnitsPerDay

(* int(s): whitespace is stripped, then s must be one integer literal *)
IntLiterals == -3..30
int(s) ==
    LET t == strip(s) IN
    IF Len(t) = 1 /\ \E n \in IntLiterals : ToString(n) = t[1]
    THEN [ok |-> TRUE, v |-> CHOOSE n \in IntLiterals : ToString(n) = t[1]]
    ELSE [ok |-> FALSE, v |-> 0]

Max(a, b) == IF a >= b THEN a ELSE b
MinOf(S) == CHOOSE x \in S : \A y \in S : x <= y
MaxOf(S) == CHOOSE x \in S : \A y \in S : x >= y

(* ---- Task ---- *)
Task(name, id_, start, length_days, section) ==
    [name |-> strip(name), id |-> strip(id_), start |-> start,
     length_days |-> length_days, section |-> section]

end(t) == t.start + timedelta(t.length_days)

(* ---- parse_mermaid: the line scan ---- *)
RawTask(m, section) ==
    [name |-> strip(m.name), id |-> strip(m.id), start_raw |-> strip(m.start),
     len_raw |-> strip(m.len), section |-> section]

(* the effect of one iteration of the loop over text.splitlines() *)
ScanStep(line0, st) ==
    LET line == rstrip(line0)
        m == TASK_RE_match(line)
        s == strip(line)
    IN
    IF ~st.in_gantt
    THEN IF startswith(lower(strip(line)), "gantt")
         THEN [st EXCEPT !.in_gantt = TRUE]
         ELSE st
    ELSE IF strip(line) = <<>> \/ startswith(strip(line), "%%") THEN st
    ELSE IF ~m.ok
    THEN IF startswith(lower(s), "section")
         THEN [st EXCEPT !.current_section = Some(strip(Tail(s)))]
         ELSE st
    ELSE [st EXCEPT !.raw_tasks = Append(@, RawTask(m, st.current_section))]

(* ---- parse_mermaid: parse_length ---- *)
(* [ok, v]: ok = FALSE is an exception leaving parse_length *)
Raise == [ok |-> FALSE, v |-> 0]
Return(v) == [ok |-> TRUE, v |-> v]

IntOrDefault(lr) == IF int(lr).ok THEN Return(int(lr).v) ELSE Return(1)

parse_length(len_raw, start_dt) ==
    LET lr == strip(len_raw)
        m == DATE_RE_search(lr)
    IN
    IF endswith(lr, "d")
    THEN LET n == int(SubSeq(lr, 1, Len(lr) - 1)) IN
         IF n.ok THEN Return(n.v) ELSE Raise
    ELSE IF endswith(lr, "w")
    THEN LET n == int(SubSeq(lr, 1, Len(lr) - 1)) IN
         IF n.ok THEN Return(n.v * 7) ELSE Raise
    ELSE IF m # None
    THEN LET end_dt == fromisoformat(replaceSlash(m[1])) IN
         IF end_dt.ok THEN Return(days(end_dt.v - start_dt)) ELSE Raise
    ELSE IntOrDefault(lr)

(* the clamp left out *)
ClampLengthMissing(length_days) == length_days

(* max(1, length_days) *)
ClampLength(length_days) == Max(1, length_days)

(* ---- parse_mermaid: one pass of the resolver ---- *)
EmptyDict == [k \in {} |-> 0]
DictSet(dict, k, v) == [x \in (DOMAIN dict) \cup {k} |-> IF x = k THEN v ELSE dict[x]]

(* the start of record r: [kind, v], kind "ok" (start v), "defer" (appended *)
(* to remaining) or "raise" (fromisoformat raised)                          *)
ResolveStart(r, idt, clock) ==
    LET start_raw == r.start_raw
        ds == DATE_RE_search(start_raw)
        parts == split(start_raw)
    IN
    IF ds # None
    THEN LET dt == fromisoformat(replaceSlash(ds[1])) IN
         IF dt.ok THEN [kind |-> "ok", v |-> dt.v] ELSE [kind |-> "raise", v |-> 0]
    ELSE IF startswith(lower(start_raw), "after")
    THEN IF Len(parts) >= 2
         THEN LET ref_id == stripComma(strip(parts[2])) IN
              IF ref_id \notin DOMAIN idt
              THEN [kind |-> "defer", v |-> 0]
              ELSE [kind |-> "ok", v |-> end(idt[ref_id])]
         ELSE [kind |-> "defer", v |-> 0]
    ELSE [kind |-> "ok", v |-> clock]

(* the body of `for r in unresolved`, on the loop state acc *)
ResolveOne(r, acc, clock) ==
    LET st == ResolveStart(r, acc.id_to_task, clock) IN
    IF st.kind = "raise" THEN [acc EXCEPT !.raised = TRUE]
    ELSE IF st.kind = "defer" THEN [acc EXCEPT !.remaining = Append(@, r)]
    ELSE LET len == parse_length(r.len_raw, st.v) IN
         IF ~len.ok THEN [acc EXCEPT !.raised = TRUE]
         ELSE LET task == Task(r.name, r.id, st.v, ClampLength(len.v), r.section) IN
              [acc EXCEPT !.id_to_task = DictSet(@, task.id, task),
                          !.tasks = Append(@, task),
                          !.progressed = TRUE]

RECURSIVE PassFrom(_, _, _, _)
PassFrom(recs, k, acc, clock) ==
    IF k > Len(recs) \/ acc.raised THEN acc
    ELSE PassFrom(recs, k + 1, ResolveOne(recs[k], acc, clock), clock)

Pass(recs, idt, ts, clock) ==
    PassFrom(recs, 1,
             [id_to_task |-> idt, tasks |-> ts, remaining |-> <<>>,
              progressed |-> FALSE, raised |-> FALSE], clock)

(* ---- parse_mermaid: forced resolution ---- *)
(* the latest start taken instead of the earliest *)
FallbackLatest(ts, clock) ==
    IF ts = <<>> THEN clock ELSE MaxOf({ts[k].start : k \in 1..Len(ts)})

(* min((t.start for t in tasks), default=datetime.now()) *)
Fallback(ts, clock) ==
    IF ts = <<>> THEN clock ELSE MinOf({ts[k].start : k \in 1..Len(ts)})

ForcedTask(r, fallback) ==
    Task(r.name, r.id, fallback,
         ClampLength(parse_length(r.len_raw, fallback).v), r.section)

(* the records left unresolved dropped instead of placed *)
ForcedTasksDropped(recs, fallback) == [ok |-> TRUE, v |-> <<>>]

(* the tasks of `for r in unresolved` after the passes; ok = FALSE if *)
(* parse_length raised on one of them                                 *)
ForcedTasks(recs, fallback) ==
    [ok |-> \A k \in 1..Len(recs) : parse_length(recs[k].len_raw, fallback).ok,
     v |-> [k \in 1..Len(recs) |-> ForcedTask(recs[k], fallback)]]

-----------------------------------------------------------------------------
(* ---- build_drawio_xml ---- *)
(* the check of the argument left out *)
EmptyTasksUnchecked(ts) == FALSE

(* `if not tasks` *)
EmptyTasks(ts) == ts = <<>>

min_date(ts) == MinOf({ts[k].start : k \in 1..Len(ts)})
max_date(ts) == MaxOf({end(ts[k]) : k \in 1..Len(ts)})
total_days(ts) == days(max_date(ts) - min_date(ts)) + 1

(* section_order: the sections of ts in the order of their first task *)
RECURSIVE SectionOrderFrom(_, _, _)
SectionOrderFrom(ts, k, order) ==
    IF k > Len(ts) THEN order
    ELSE SectionOrderFrom(ts, k + 1,
             IF \E j \in 1..Len(order) : order[j] = ts[k].section
             THEN order ELSE Append(order, ts[k].section))

section_order(ts) == SectionOrderFrom(ts, 1, <<>>)

(* grouped[section]: the tasks of ts in that section, in the order of ts *)
grouped(ts, section) == SelectSeq(ts, LAMBDA t : t.section = section)

(* rows: the groups flattened in section order, each row <<task, section>> *)
RECURSIVE RowsFrom(_, _, _)
RowsFrom(ts, order, si) ==
    IF si > Len(order) THEN <<>>
    ELSE [k \in 1..Len(grouped(ts, order[si])) |->
             [t |-> grouped(ts, order[si])[k], section |-> order[si]]]
         \o RowsFrom(ts, order, si + 1)

(* the rows in the order of the task list, not grouped by section *)
RowsUngrouped(ts) == [k \in 1..Len(ts) |-> [t |-> ts[k], section |-> ts[k].section]]

rows(ts) == RowsFrom(ts, section_order(ts), 1)

row_height == TASK_HEIGHT + ROW_GAP

rows_height(ts) ==
    Len(rows(ts)) * row_height - (IF Len(rows(ts)) > 0 THEN ROW_GAP ELSE 0)

(* a cell of the document: kind and n make its id (bg<n>, sec_<n>, task<n>,  *)
(* tick<n>, lbl<n>); a tick line runs from (x, y) down to (x, y + h)         *)
Cell(kind, n, value, x, y, w, h) ==
    [kind |-> kind, n |-> n, value |-> value, x |-> x, y |-> y, w |-> w, h |-> h]

(* `section or ""` *)
SectionText(section) == IF section = None THEN <<>> ELSE section[1]

(* number of rows above the block of the si-th section *)
RECURSIVE RowIndexOf(_, _, _)
RowIndexOf(ts, order, si) ==
    IF si <= 1 THEN 0
    ELSE RowIndexOf(ts, order, si - 1) + Len(grouped(ts, order[si - 1]))

BlockStartY(ts, order, si, mg) == mg + RowIndexOf(ts, order, si) * row_height

BlockHeight(tlist) ==
    Len(tlist) * row_height - (IF Len(tlist) > 0 THEN ROW_GAP ELSE 0)

(* the background and the label of each section block *)
RECURSIVE SectionCellsFrom(_, _, _, _, _)
SectionCellsFrom(ts, order, si, dw, mg) ==
    IF si > Len(order) THEN <<>>
    ELSE LET tlist == grouped(ts, order[si])
             block_start_y == BlockStartY(ts, order, si, mg)
             block_height == BlockHeight(tlist)
             label_y == block_start_y + (block_height - TASK_HEIGHT) \div 2
         IN <<Cell("bg", si, <<>>, mg, block_start_y,
                   SECTION_COL_WIDTH + total_days(ts) * dw, block_height),
              Cell("sec", si, SectionText(order[si]), mg, label_y,
                   SECTION_COL_WIDTH - 8, TASK_HEIGHT)>>
            \o SectionCellsFrom(ts, order, si + 1, dw, mg)

(* y of the row of index row_index (from 0) *)
RowY(row_index, mg) == mg + row_index * row_height

(* the bar of each row *)
TaskCells(ts, dw, mg) ==
    [k \in 1..Len(rows(ts)) |->
        LET t == rows(ts)[k].t IN
        Cell("task", k, t.name,
             mg + SECTION_COL_WIDTH + days(t.start - min_date(ts)) * dw,
             RowY(k - 1, mg),
             Max(MinBarWidth, t.length_days * dw),
             TASK_HEIGHT)]

(* the gap to the last label not checked *)
LabelFitsAlways(x, last_x) == x > last_x

(* whether the tick at x gets a label, given the last labelled x *)
LabelFits(x, last_x) == x - last_x >= LABEL_MIN_GAP

TickX(dd, dw, mg) == mg + SECTION_COL_WIDTH + dd * dw

(* the cells of one iteration of the tick loop *)
TickCells(ts, dd, dw, mg, last_x) ==
    LET day == min_date(ts) + timedelta(dd)
        x == TickX(dd, dw, mg)
        lbl_w == Max(MinLabelWidth, LABEL_MIN_GAP)
    IN <<Cell("tick", dd + 1, <<>>, x, mg, 0,
              IF rows_height(ts) > 0 THEN rows_height(ts) ELSE TASK_HEIGHT)>>
       \o (IF LabelFits(x, last_x)
           THEN <<Cell("lbl", dd + 1, <<ToString(days(day))>>, x - lbl_w \div 2,
                       mg - 40, lbl_w, TASK_HEIGHT)>>
           ELSE <<>>)

-----------------------------------------------------------------------------
(* ---- the inputs ---- *)
TaskLine(name, id, start, len) ==
    <<" ">> \o name \o <<" ", ":">> \o id \o <<",", " ">> \o start \o <<",", " ">> \o len

SeqsUpTo(S, n) == UNION {[1..k -> S] : k \in 0..n}

D0 == <<"2024-01-01">>

(* free-form texts: any lines of LinePool *)
LinePool ==
    { <<>>,
      <<" ", "Gantt", " ">>,
      <<"%%", " ", "A", ":", "a1", ",", "2024-01-01", ",", "2", "d">>,
      <<"section", " ", "S1">>,
      <<" ", "Section", " ", " ", "S2", " ">>,
      TaskLine(<<"A">>, <<"a1">>, D0, <<"2", "d">>),
      TaskLine(<<"B">>, <<"a2">>, <<"after", " ", "a1">>, <<"1", "w">>),
      <<"xyz", " ", ":", "a1">>,
      <<"section", " ", "S2", ":", "a2", ",", "2024-01-03", ",", "3">> }

FreeTexts == SeqsUpTo(LinePool, MaxLines)

(* dependency texts: a gantt line, then task lines with `after` references *)
DepStarts == { D0, <<"after", " ", "a1">>, <<"after", " ", "a2">>,
               <<"After", " ", " ", "a9">>, <<"after">>, <<"xyz">> }
DepLines == { TaskLine(<<"T">>, id, st, <<"2", "d">>) :
                id \in {<<"a1">>, <<"a2">>}, st \in DepStarts }
DepTexts == { <<<<"gantt">>>> \o ls : ls \in SeqsUpTo(DepLines, MaxRecs) }

(* section texts: two or three section blocks of one task each *)
SecNames == {"S1", "S2"}
SecStarts == { D0, <<"after", " ", "a1">>, <<"after", " ", "a2">>, <<"after", " ", "a3">> }
SecBlock(sec, id, st) ==
    << <<"section", " ", sec>>, TaskLine(<<"T">>, <<id>>, st, <<"2", "d">>) >>
SectionTexts ==
    { <<<<"gantt">>>> \o SecBlock(x1, "a1", s1) \o SecBlock(x2, "a2", s2)
                      \o (IF third THEN SecBlock(x3, "a3", D0) ELSE <<>>) :
        x1 \in SecNames, x2 \in SecNames, x3 \in {"S1"},
        s1 \in SecStarts, s2 \in SecStarts, third \in BOOLEAN }

(* chain texts: t1 starts on a date, t<e> starts after t<e-1>; in the order *)
(* of the chain or in the reverse order                                     *)
ChainLine(e) ==
    TaskLine(<<"T">>, <<"t", ToString(e)>>,
             IF e = 1 THEN D0 ELSE <<"after", " ", "t", ToString(e - 1)>>,
             <<"1", "d">>)
ChainTexts ==
    { <<<<"gantt">>>> \o [k \in 1..n |-> ChainLine(IF rev THEN n + 1 - k ELSE k)] :
        n \in 1..MaxChain, rev \in BOOLEAN }

(* field texts: one task with any start and length field, and possibly a *)
(* second one after it or after itself                                   *)
StartPool == { <<"2024-01-03">>, <<"2024/01/08">>, <<"2024-02-30">>, <<"xyz">>,
               <<"after", " ", "2024-01-01">> }
LenPool == { <<"2", "d">>, <<"0", "d">>, <<"-2", "d">>, <<"2", " ", "d">>, <<"2", "D">>,
             <<"1", "w">>, <<"abc", "d">>, <<"x", "w">>, <<"xyz">>, <<"3">>,
             <<"2", ",", "3">>, <<"2024-01-04">>, <<"2023-12-30">>, <<"2024-02-30">> }
FieldTexts ==
    { << <<"gantt">>, TaskLine(<<"A">>, <<"a1">>, st, ln) >> \o second :
        st \in StartPool, ln \in LenPool,
        second \in {<<>>} \cup
            { <<TaskLine(<<"B">>, <<"a2">>, <<"after", " ", ref>>, ln2)>> :
                ref \in {"a1", "a2"}, ln2 \in LenPool } }

InputTexts == FreeTexts \cup DepTexts \cup SectionTexts \cup ChainTexts \cup FieldTexts

(* the instant the run starts: in the middle of day 2 *)
Now0 == 2 * UnitsPerDay + 1

(* task lists handed directly to build_drawio_xml *)
LayoutTasks ==
    { Task(<<"T">>, <<"a1">>, sl[1], sl[2], sec) :
        sl \in { <<0, 1>>, <<0, 60>>, <<3 * UnitsPerDay + 1, 9>> },
        sec \in { None, Some(<<"S1">>), Some(<<"S2">>) } }
DayWidths == {1, 3, 7, DAY_WIDTH}

-----------------------------------------------------------------------------
(* ---- __main__ ---- *)
InitCommon ==
    /\ err = ""
    /\ outfile = NoFile
    /\ text = <<>>
    /\ lineno = 0
    /\ in_gantt = FALSE
    /\ current_section = None
    /\ raw_tasks = <<>>
    /\ unresolved = <<>>
    /\ id_to_task = EmptyDict
    /\ passes = 0
    /\ now = Now0
    /\ cells = <<>>
    /\ d = 0
    /\ last_label_x = LastLabelInit
    /\ xml = NoFile

Init ==
    /\ InitCommon
    /\ pc = "check"
    /\ \/ infile_exists = TRUE /\ disk_text \in InputTexts
       \/ infile_exists = FALSE /\ disk_text = <<>>
    /\ tasks = <<>>
    /\ day_width = DAY_WIDTH
    /\ margin = MARGIN

(* if not inp.exists(): raise SystemExit *)
CheckInput ==
    /\ pc = "check"
    /\ IF infile_exists
       THEN pc' = "read" /\ err' = err
       ELSE pc' = "failed" /\ err' = "Input file not found"
    /\ UNCHANGED <<infile_exists, disk_text, outfile, text, lineno, in_gantt,
                   current_section, raw_tasks, unresolved, id_to_task, tasks,
                   passes, now, day_width, margin, cells, d, last_label_x, xml>>

(* text = inp.read_text(); parse_mermaid(text) is entered *)
ReadText ==
    /\ pc = "read"
    /\ text' = disk_text
    /\ pc' = "scan"
    /\ UNCHANGED <<err, infile_exists, disk_text, outfile, lineno, in_gantt,
                   current_section, raw_tasks, unresolved, id_to_task, tasks,
                   passes, now, day_width, margin, cells, d, last_label_x, xml>>

(* one iteration of `for line in text.splitlines()` *)
ScanLine ==
    /\ pc = "scan"
    /\ lineno < Len(text)
    /\ LET st == ScanStep(text[lineno + 1],
                          [in_gantt |-> in_gantt, current_section |-> current_section,
                           raw_tasks |-> raw_tasks])
       IN /\ in_gantt' = st.in_gantt
          /\ current_section' = st.current_section
          /\ raw_tasks' = st.raw_tasks
    /\ lineno' = lineno + 1
    /\ UNCHANGED <<pc, err, infile_exists, disk_text, outfile, text, unresolved,
                   id_to_task, tasks, passes, now, day_width, margin, cells, d,
                   last_label_x, xml>>

(* the scan is over: id_to_task = {}, unresolved = raw_tasks.copy() *)
EndScan ==
    /\ pc = "scan"
    /\ lineno = Len(text)
    /\ id_to_task' = EmptyDict
    /\ unresolved' = raw_tasks
    /\ pc' = "resolve"
    /\ UNCHANGED <<err, infile_exists, disk_text, outfile, text, lineno, in_gantt,
                   current_section, raw_tasks, tasks, passes, now, day_width,
                   margin, cells, d, last_label_x, xml>>

(* one iteration of `for _ in range(max_passes)` *)
ResolvePass ==
    /\ pc = "resolve"
    /\ passes < max_passes
    /\ LET acc == Pass(unresolved, id_to_task, tasks, now) IN
       IF acc.raised
       THEN /\ pc' = "failed"
            /\ err' = "ValueError"
            /\ UNCHANGED <<unresolved, id_to_task, tasks, passes>>
       ELSE /\ err' = err
            /\ passes' = passes + 1
            /\ id_to_task' = acc.id_to_task
            /\ tasks' = acc.tasks
            /\ IF ~acc.progressed
               THEN pc' = "forced" /\ unresolved' = unresolved
               ELSE /\ unresolved' = acc.remaining
                    /\ pc' = IF passes + 1 < max_passes THEN "resolve" ELSE "forced"
    /\ UNCHANGED <<infile_exists, disk_text, outfile, text, lineno, in_gantt,
                   current_section, raw_tasks, now, day_width, margin, cells, d,
                   last_label_x, xml>>

(* `if unresolved:` after the loop, and the return of parse_mermaid *)
ForcedResolve ==
    /\ pc = "forced"
    /\ LET forced == ForcedTasks(unresolved, Fallback(tasks, now)) IN
       IF unresolved # <<>> /\ ~forced.ok
       THEN pc' = "failed" /\ err' = "ValueError" /\ tasks' = tasks
       ELSE /\ pc' = "build"
            /\ err' = err
            /\ tasks' = IF unresolved # <<>> THEN tasks \o forced.v ELSE tasks
    /\ UNCHANGED <<infile_exists, disk_text, outfile, text, lineno, in_gantt,
                   current_section, raw_tasks, unresolved, id_to_task, passes,
                   now, day_width, margin, cells, d, last_label_x, xml>>

(* time passes while the resolver runs *)
Tick ==
    /\ pc \in {"resolve", "forced"}
    /\ now < Now0 + MaxTicks
    /\ now' = now + 1
    /\ UNCHANGED <<pc, err, infile_exists, disk_text, outfile, text, lineno,
                   in_gantt, current_section, raw_tasks, unresolved, id_to_task,
                   tasks, passes, day_width, margin, cells, d, last_label_x, xml>>

(* build_drawio_xml up to the tick loop: the check of the argument, the *)
(* section blocks and the task bars                                      *)
BuildLayout ==
    /\ pc = "build"
    /\ IF EmptyTasks(tasks)
       THEN /\ pc' = "failed"
            /\ err' = "no tasks provided"
            /\ UNCHANGED <<cells, d, last_label_x>>
       ELSE /\ pc' = "ticks"
            /\ err' = err
            /\ cells' = SectionCellsFrom(tasks, section_order(tasks), 1, day_width, margin)
                        \o TaskCells(tasks, day_width, margin)
            /\ d' = 0
            /\ last_label_x' = LastLabelInit
    /\ UNCHANGED <<infile_exists, disk_text, outfile, text, lineno, in_gantt,
                   current_section, raw_tasks, unresolved, id_to_task, tasks,
                   passes, now, day_width, margin, xml>>

(* one iteration of `for d in range(0, total_days, TICK_INTERVAL)` *)
DrawTick ==
    /\ pc = "ticks"
    /\ d < total_days(tasks)
    /\ cells' = cells \o TickCells(tasks, d, day_width, margin, last_label_x)
    /\ last_label_x' = IF LabelFits(TickX(d, day_width, margin), last_label_x)
                       THEN TickX(d, day_width, margin) ELSE last_label_x
    /\ d' = d + TICK_INTERVAL
    /\ UNCHANGED <<pc, err, infile_exists, disk_text, outfile, text, lineno,
                   in_gantt, current_section, raw_tasks, unresolved, id_to_task,
                   tasks, passes, now, day_width, margin, xml>>

(* the tick loop is over: the document is serialised and returned *)
FinishBuild ==
    /\ pc = "ticks"
    /\ d >= total_days(tasks)
    /\ xml' = cells
    /\ pc' = "write"
    /\ UNCHANGED <<err, infile_exists, disk_text, outfile, text, lineno, in_gantt,
                   current_section, raw_tasks, unresolved, id_to_task, tasks,
                   passes, now, day_width, margin, cells, d, last_label_x>>

(* outp.write_text(xml) *)
WriteOutput ==
    /\ pc = "write"
    /\ outfile' = xml
    /\ pc' = "done"
    /\ UNCHANGED <<err, infile_exists, disk_text, text, lineno, in_gantt,
                   current_section, raw_tasks, unresolved, id_to_task, tasks,
                   passes, now, day_width, margin, cells, d, last_label_x, xml>>

Next ==
    \/ CheckInput
    \/ ReadText
    \/ ScanLine
    \/ EndScan
    \/ ResolvePass
    \/ ForcedResolve
    \/ Tick
    \/ BuildLayout
    \/ DrawTick
    \/ FinishBuild
    \/ WriteOutput

Spec == Init /\ [][Next]_vars

(* build_drawio_xml called on any task list, with any day_width *)
InitLayout ==
    /\ InitCommon
    /\ pc = "build"
    /\ infile_exists = TRUE
    /\ disk_text = <<>>
    /\ tasks \in SeqsUpTo(LayoutTasks, MaxTasks)
    /\ day_width \in DayWidths
    /\ margin = MARGIN

NextLayout ==
    \/ BuildLayout
    \/ DrawTick
    \/ FinishBuild

SpecLayout == InitLayout /\ [][NextLayout]_vars

-----------------------------------------------------------------------------
(* ---- notions the properties are stated with ---- *)

(* parse_mermaid has returned its task list *)
ParseReturned ==
    \/ pc \in {"build", "ticks", "write", "done"}
    \/ pc = "failed" /\ err = "no tasks provided"

(* the start field of record r is `after <id>` *)
IsAfter(r) ==
    /\ DATE_RE_search(r.start_raw) = None
    /\ startswith(lower(r.start_raw), "after")
    /\ Len(split(r.start_raw)) >= 2

RefId(r) == stripComma(split(r.start_raw)[2])

UniqueIds(recs) ==
    \A i \in 1..Len(recs) : \A j \in 1..Len(recs) : recs[i].id = recs[j].id => i = j

HasDate(r) ==
    /\ DATE_RE_search(r.start_raw) # None
    /\ fromisoformat(replaceSlash(DATE_RE_search(r.start_raw)[1])).ok

(* the `after` chain of the record with this id leads back to a literal date *)
RECURSIVE Grounded(_, _, _)
Grounded(recs, id, fuel) ==
    \E i \in 1..Len(recs) :
        /\ recs[i].id = id
        /\ \/ HasDate(recs[i])
           \/ fuel > 0 /\ IsAfter(recs[i]) /\ Grounded(recs, RefId(recs[i]), fuel - 1)

TaskOf(id) == tasks[CHOOSE k \in 1..Len(tasks) : tasks[k].id = id]

Count(seq, P(_)) == Cardinality({k \in 1..Len(seq) : P(seq[k])})

(* C1: when parse_mermaid has returned, every record that starts `after a`,  *)
(* where a is the id of a record whose own chain leads back to a literal     *)
(* date, has a task starting exactly at the end of a's task, whatever the    *)
(* order of the records and the length of the chain (ids being unique).      *)
C1_DependencyCorrect ==
    (pc = "build" /\ UniqueIds(raw_tasks)) =>
        \A i \in 1..Len(raw_tasks) :
            LET r == raw_tasks[i] IN
            (IsAfter(r) /\ Grounded(raw_tasks, RefId(r), Len(raw_tasks))) =>
                TaskOf(r.id).start = end(TaskOf(RefId(r)))

RECURSIVE DeclaredFrom(_, _, _, _)
DeclaredFrom(txt, k, st, acc) ==
    IF k > Len(txt) THEN acc
    ELSE LET st2 == ScanStep(txt[k], st) IN
         DeclaredFrom(txt, k + 1, st2,
             IF st2.current_section # st.current_section
                /\ \A j \in 1..Len(acc) : acc[j] # st2.current_section[1]
             THEN Append(acc, st2.current_section[1]) ELSE acc)

DeclaredSections(txt) ==
    DeclaredFrom(txt, 1, [in_gantt |-> FALSE, current_section |-> None,
                          raw_tasks |-> <<>>], <<>>)

PositionIn(seq, x) == CHOOSE k \in 1..Len(seq) : seq[k] = x

SectionLabels(cs) == SelectSeq(cs, LAMBDA c : c.kind = "sec")

(* C3: in the document, section blocks lie top to bottom in the order in *)
(* which their section headers were first declared in the source text.   *)
C3_SectionOrder ==
    pc = "write" =>
        LET decl == DeclaredSections(text)
            labels == SectionLabels(xml)
            named == {k \in 1..Len(labels) :
                        \E j \in 1..Len(decl) : decl[j] = labels[k].value}
        IN \A a \in named : \A b \in named :
             labels[a].y < labels[b].y =>
                PositionIn(decl, labels[a].value) < PositionIn(decl, labels[b].value)

(* C4: parse_mermaid raises no error, whatever the start and length fields *)
(* of the task lines contain.                                              *)
C4_ParseNeverFails == ~(pc = "failed" /\ err = "ValueError")

(* C5: every task parse_mermaid made has length_days >= 1, and its end is *)
(* its start plus exactly length_days days.                               *)
C5_Duration ==
    \A k \in 1..Len(tasks) :
        /\ tasks[k].length_days >= 1
        /\ days(end(tasks[k]) - tasks[k].start) = tasks[k].length_days
        /\ (end(tasks[k]) - tasks[k].start) % UnitsPerDay = 0

(* a forced task whose end date literal lies before its start, and a task *)
(* of length 0d, both clamped to one day                                  *)
C5_Witness ==
    /\ pc = "build"
    /\ \E i \in 1..Len(unresolved) :
         /\ unresolved[i].len_raw = <<"2023-12-30">>
         /\ \E k \in 1..Len(tasks) :
              tasks[k].id = unresolved[i].id /\ tasks[k].length_days = 1
    /\ \E i \in 1..Len(raw_tasks) :
         /\ raw_tasks[i].len_raw = <<"0", "d">>
         /\ \E k \in 1..Len(tasks) :
              tasks[k].id = raw_tasks[i].id /\ tasks[k].length_days = 1

(* no line of the text starts the gantt block *)
NoGanttLine(txt) ==
    \A k \in 1..Len(txt) : ~startswith(lower(strip(txt[k])), "gantt")

(* C6: the output file is written only when the run is done, after parse   *)
(* and build both succeeded on a non-empty task list; and a text with no   *)
(* gantt line or no recognized task line makes build_drawio_xml raise, the *)
(* run fail there, and leaves the output file unwritten.                   *)
C6_EmptyInputFails ==
    /\ outfile # NoFile =>
         pc = "done" /\ outfile = xml /\ xml # NoFile /\ tasks # <<>> /\ err = ""
    /\ pc \in {"ticks", "write", "done"} => tasks # <<>>
    /\ (ParseReturned /\ pc # "build" /\ (NoGanttLine(text) \/ raw_tasks = <<>>)) =>
         pc = "failed" /\ err = "no tasks provided" /\ outfile = NoFile

(* a run on a text with a gantt line and a section but no task line, failed *)
(* in build_drawio_xml                                                      *)
C6_Witness ==
    /\ pc = "failed"
    /\ err = "no tasks provided"
    /\ ~NoGanttLine(text)
    /\ Len(text) >= 2
    /\ outfile = NoFile

TickCellsOf(cs) == {k \in 1..Len(cs) : cs[k].kind = "tick"}
LabelCellsOf(cs) == {k \in 1..Len(cs) : cs[k].kind = "lbl"}

(* x of the tick the label cell lbl<n> belongs to *)
TickXOf(cs, n) == cs[CHOOSE k \in TickCellsOf(cs) : cs[k].n = n].x

Abs(x) == IF x >= 0 THEN x ELSE -x

(* C7: once the first tick is drawn its label (offset 0) is there, and any *)
(* two tick labels belong to ticks at least LABEL_MIN_GAP pixels apart.    *)
C7_LabelSpacing ==
    /\ TickCellsOf(cells) # {} => \E k \in LabelCellsOf(cells) : cells[k].n = 1
    /\ \A a \in LabelCellsOf(cells) : \A b \in LabelCellsOf(cells) :
         a # b => Abs(TickXOf(cells, cells[a].n) - TickXOf(cells, cells[b].n))
                    >= LABEL_MIN_GAP

(* a finished document with several labels and ticks left without a label *)
C7_Witness ==
    /\ pc = "write"
    /\ Cardinality(LabelCellsOf(xml)) >= 2
    /\ Cardinality(TickCellsOf(xml)) > Cardinality(LabelCellsOf(xml)) + 1

(* the claim's reading of the scan: the block starts after the first gantt *)
(* line; blank, comment and section lines give no record; a section line   *)
(* names the section of the task lines that follow                         *)
RECURSIVE RefScanFrom(_, _, _, _, _)
RefScanFrom(txt, k, inside, section, recs) ==
    IF k > Len(txt) THEN recs
    ELSE LET s == strip(txt[k]) IN
         IF ~inside
         THEN RefScanFrom(txt, k + 1, startswith(lower(s), "gantt"), section, recs)
         ELSE IF s = <<>> \/ startswith(s, "%%")
         THEN RefScanFrom(txt, k + 1, inside, section, recs)
         ELSE IF startswith(lower(s), "section")
         THEN RefScanFrom(txt, k + 1, inside, Some(strip(Tail(s))), recs)
         ELSE IF TASK_RE_match(rstrip(txt[k])).ok
         THEN RefScanFrom(txt, k + 1, inside, section,
                          Append(recs, RawTask(TASK_RE_match(rstrip(txt[k])), section)))
         ELSE RefScanFrom(txt, k + 1, inside, section, recs)

(* C8: after any number of scanned lines, the records are those of the task *)
(* lines inside the block, in source order, each tagged with the section of *)
(* the most recent section line; no other line gives a record.              *)
C8_LineClassification ==
    raw_tasks = RefScanFrom(SubSeq(text, 1, lineno), 1, FALSE, None, <<>>)

TaskCellsOf(cs) == {k \in 1..Len(cs) : cs[k].kind = "task"}
BgCellsOf(cs) == {k \in 1..Len(cs) : cs[k].kind = "bg"}
SectionsOf(ts) == {ts[k].section : k \in 1..Len(ts)}

(* the background of this section: blocks are numbered in the order in which *)
(* the sections first occur in the task list                                 *)
FirstIndex(ts, section) == MinOf({k \in 1..Len(ts) : ts[k].section = section})
BgOf(cs, ts, section) ==
    LET rank == Cardinality({s \in SectionsOf(ts) :
                               FirstIndex(ts, s) <= FirstIndex(ts, section)})
    IN cs[CHOOSE k \in BgCellsOf(cs) : cs[k].n = rank]

(* C10: the k-th row (from 0) of the flattened list has y = margin +        *)
(* k * row_height; the rows of one section are consecutive; each section    *)
(* has one background, starting at its first row and as high as its rows,   *)
(* so that backgrounds follow each other without gap or overlap and every   *)
(* bar lies inside the background of its section.                           *)
C10_RowStacking ==
    (pc \in {"ticks", "write"}) =>
        LET R == rows(tasks)
            bar(k) == cells[CHOOSE c \in TaskCellsOf(cells) : cells[c].n = k]
            rowsOf(s) == {k \in 1..Len(R) : R[k].section = s}
        IN
        /\ Len(R) = Len(tasks)
        /\ Cardinality(TaskCellsOf(cells)) = Len(R)
        /\ \A k \in 1..Len(R) :
             /\ bar(k).y = margin + (k - 1) * row_height
             /\ bar(k).value = R[k].t.name
        /\ \A i \in 1..Len(R) : \A j \in 1..Len(R) : \A k \in 1..Len(R) :
             (i < j /\ j < k /\ R[i].section = R[k].section)
                => R[j].section = R[i].section
        /\ Cardinality(BgCellsOf(cells)) = Cardinality(SectionsOf(tasks))
        /\ \A s \in SectionsOf(tasks) :
             LET bg == BgOf(cells, tasks, s)
                 n == Cardinality({k \in 1..Len(tasks) : tasks[k].section = s})
             IN
             /\ Cardinality(rowsOf(s)) = n
             /\ bg.y = bar(MinOf(rowsOf(s))).y
             /\ bg.h = n * row_height
             /\ \A k \in rowsOf(s) :
                  bg.y <= bar(k).y /\ bar(k).y + bar(k).h <= bg.y + bg.h
        /\ \A a \in BgCellsOf(cells) : \A b \in BgCellsOf(cells) :
             cells[b].n = cells[a].n + 1 => cells[b].y = cells[a].y + cells[a].h
        /\ \A a \in BgCellsOf(cells) :
             cells[a].n = 1 => cells[a].y = margin

(* a laid out list in which a section's tasks were given in two places *)
C10_Witness ==
    /\ pc = "write"
    /\ \E i \in 1..Len(tasks) : \E j \in 1..Len(tasks) : \E k \in 1..Len(tasks) :
         /\ i < j /\ j < k
         /\ tasks[i].section = tasks[k].section
         /\ tasks[j].section # tasks[i].section

====
